---- MODULE Spec2Model ----
(***************************************************************************)
(* Model of the request-guard pipeline (semoxy/util.py) and the account    *)
(* endpoints (semoxy/endpoints/auth.py) of the Semoxy server.              *)
(*                                                                         *)
(* A request is a record held in a slot.  It is accepted, the session      *)
(* middleware resolves req.ctx.session / req.ctx.user, the decorators      *)
(* (guards) run outermost first, and then the handler runs.  The steps of  *)
(* one request are separated exactly where the Python code awaits the      *)
(* store or the server manager, so requests interleave at those points.    *)
(***************************************************************************)
EXTENDS Integers, Sequences, FiniteSets, TLC

VARIABLES
    req,        \* slot -> the request in flight in that slot (or an idle slot)
    sessions,   \* the session collection: a set of session records
    tickets,    \* the wsticket collection: a set of ticket records
    nextSid,    \* next unused session id (ids are never reused)
    nextTid,    \* next unused document id of the wsticket collection
    running,    \* server id -> the running flag of that managed server
    now,        \* the clock, in seconds
    ticks,      \* number of clock advances so far
    issued,     \* history: every session created, with its creation time
    loggedOut   \* history: ids of the sessions whose logout has completed

vars == <<req, sessions, tickets, nextSid, nextTid, running, now, ticks, issued, loggedOut>>

----------------------------------------------------------------------------
(* Bounds of the model *)

MaxSessions == 1    \* sessions created in one behaviour
MaxTicks == 1       \* clock advances in one behaviour
MaxTickets == 3     \* ticket issuances (stored or in flight) at a time
NumTokens == 2      \* size of the space secrets.token_urlsafe draws from
MaxChain == 2       \* longest decorator chain of the generic route
MaxLogins == 1      \* logins on top of the initial session (SpecSessions)

Slots == {1, 2}     \* the requests in flight together; a slot is reused
                    \* once its request is answered
Tokens == 1..NumTokens

(* Program constants *)

SESSION_EXPIRATION == 7200
RetryCeiling == 10
MaxAttempts == 11

----------------------------------------------------------------------------
(* semoxy/util.py: APIError, json_error, json_response *)

APIError == [
    ROOT_DISABLED |-> <<"root_disabled", 400>>,
    INVALID_CREDENTIALS |-> <<"invalid_credentials", 401>>,
    ALREADY_EXISTING |-> <<"already_existing", 400>>,
    INVALID_NAME |-> <<"invalid_name", 400>>,
    PORT_IN_USE |-> <<"port_in_use", 423>>,
    INVALID_SORT_DIRECTION |-> <<"invalid_sort_direction", 400>>,
    UNKNOWN |-> <<"unknown", 500>>,
    INVALID_VERSION |-> <<"invalid_version", 400>>,
    TOO_MUCH_RAM |-> <<"too_much_ram", 400>>,
    INVALID_PORT_TYPE |-> <<"invalid_port_type", 400>>,
    INVALID_PORT |-> <<"invalid_port", 400>>,
    ILLEGAL_SERVER_NAME |-> <<"illegal_server_name", 400>>,
    INVALID_JAVA_VERSION |-> <<"invalid_java_version", 400>>,
    SERVER_VERSION_POST_INSTALL |-> <<"server_version_post_install", 500>>,
    MISSING_VALUE |-> <<"missing_value", 400>>,
    INVALID_SERVER |-> <<"invalid_server", 404>>,
    INVALID_SERVER_STATUS |-> <<"invalid_server_status", 423>>,
    UNAUTHENTICATED |-> <<"unauthenticated", 401>>,
    NO_PERMISSION |-> <<"no_permission", 403>>,
    INVALID_SESSION |-> <<"invalid_session", 401>>,
    SESSION_EXPIRED |-> <<"session_expired", 401>>,
    INVALID_PAYLOAD_SCHEMA |-> <<"invalid_payload_schema", 400>> ]

\* {**d, **e}: the dict d updated by the dict e
DictUpdate(d, e) ==
    [k \in (DOMAIN d) \cup (DOMAIN e) |-> IF k \in DOMAIN e THEN e[k] ELSE d[k]]

\* json(di, status=...): a response is its status and its body (a dict)
json_response(di, status) == [status |-> status, body |-> di]

json_error(error, description, additional) ==
    json_response(
        DictUpdate(additional,
                   [error |-> "err_ " \o error[1], description |-> description]),
        error[2])

\* no keyword arguments given to json_error
NoAdditional == [k \in {} |-> ""]

\* the slot holds no response yet
NoResp == [status |-> 0, body |-> [pending |-> ""]]

\* an exception that escapes the decorators is answered by the framework
\* with status 500 and no envelope of this program
ServerError(exc) == [status |-> 500, body |-> [exception |-> exc]]

----------------------------------------------------------------------------
(* The data a request carries and the context the middleware and the      *)
(* decorators attach to it                                                 *)

Names == {"alice", "bob"}
Passwords == {"pw", "bad"}
Keys == {"username", "password"}
ServerIds == {"s1"}

\* "no session" / "no user" / "no server": None in the Python code
NoSession == [sid |-> 0, userId |-> "", expiration |-> 0]
NoCtx == [session |-> NoSession, user |-> "", server |-> ""]

\* req.json: None when the body is empty ("none"), a list for a JSON array
\* ("array"), a dict for a JSON object ("object"); valid says whether the
\* pydantic model of bind_model accepts the dict
NoJson == [kind |-> "none", keys |-> {}, username |-> "", password |-> "", valid |-> FALSE]

Guard(name, flag, json_keys) == [name |-> name, flag |-> flag, json_keys |-> json_keys]

Idle == [route |-> "", guards |-> <<>>, sid |-> 0, json |-> NoJson, i |-> "",
         agent |-> "", ctx |-> NoCtx, pc |-> "idle", pos |-> 1, verdicts |-> <<>>,
         invoked |-> FALSE, resp |-> NoResp, after |-> FALSE, expired |-> FALSE,
         ticket |-> 0, attempts |-> 0, data |-> "", queried |-> FALSE]

----------------------------------------------------------------------------
(* semoxy/util.py: the decorators.  Each one yields an outcome: it passes  *)
(* the request on to f (with the context it attached), rejects it with a   *)
(* json_error, raises, or awaits the server manager.                       *)

Pass(rq) == [out |-> "pass", resp |-> NoResp, ctx |-> rq.ctx, data |-> rq.data]
Reject(rq, resp) == [out |-> "reject", resp |-> resp, ctx |-> rq.ctx, data |-> rq.data]
Raise(rq, exc) == [out |-> "raise", resp |-> ServerError(exc), ctx |-> rq.ctx, data |-> rq.data]
Await(rq) == [out |-> "await", resp |-> NoResp, ctx |-> rq.ctx, data |-> rq.data]

requires_login_default == TRUE

\* requires_login with the test of the user inverted
requires_login_inverted(logged_in, rq) ==
    IF logged_in /\ rq.ctx.user # ""
    THEN Reject(rq, json_error(APIError.UNAUTHENTICATED,
                    "you need to be logged in to access this endpoint", NoAdditional))
    ELSE IF ~logged_in /\ rq.ctx.user = ""
    THEN Reject(rq, json_error(APIError.NO_PERMISSION,
                    "you can't use this endpoint while logged in", NoAdditional))
    ELSE Pass(rq)

requires_login(logged_in, rq) ==
    IF logged_in /\ rq.ctx.user = ""
    THEN Reject(rq, json_error(APIError.UNAUTHENTICATED,
                    "you need to be logged in to access this endpoint", NoAdditional))
    ELSE IF ~logged_in /\ rq.ctx.user # ""
    THEN Reject(rq, json_error(APIError.NO_PERMISSION,
                    "you can't use this endpoint while logged in", NoAdditional))
    ELSE Pass(rq)

\* the index of the first name of json_keys, from index k on, that is not a
\* key of the payload; 0 when there is none
RECURSIVE FirstMissing(_, _, _)
FirstMissing(json_keys, keys, k) ==
    IF k > Len(json_keys) THEN 0
    ELSE IF json_keys[k] \notin keys THEN k
    ELSE FirstMissing(json_keys, keys, k + 1)

requires_post_params(json_keys, rq) ==
    IF json_keys = <<>> THEN Pass(rq)
    ELSE IF rq.json.kind # "object" THEN Raise(rq, "AttributeError")
    ELSE LET k == FirstMissing(json_keys, rq.json.keys, 1) IN
         IF k = 0 THEN Pass(rq)
         ELSE Reject(rq, json_error(APIError.MISSING_VALUE,
                         "you need to specify " \o json_keys[k],
                         [field |-> json_keys[k]]))

bind_model(rq) ==
    IF rq.json.kind # "object" THEN Raise(rq, "TypeError")
    ELSE IF ~rq.json.valid
    THEN Reject(rq, json_error(APIError.INVALID_PAYLOAD_SCHEMA, "invalid payload type",
                    [errors |-> <<"value_error">>]))
    ELSE [Pass(rq) EXCEPT !.data = "model"]

\* server_endpoint up to its await of server_manager.get_server(i)
server_endpoint(rq) ==
    IF rq.i = ""
    THEN Reject(rq, json_error(APIError.MISSING_VALUE,
                    "please specify the server id in the uri", NoAdditional))
    ELSE Await(rq)

\* server_endpoint without the test of the answer: whatever get_server
\* answered is attached and f is called
server_endpoint_resume_unchecked(rq, server) ==
    [Pass(rq) EXCEPT !.ctx.server = server]

\* server_endpoint from the answer of get_server on: server is "" for None
server_endpoint_resume(rq, server) ==
    IF server = ""
    THEN Reject(rq, json_error(APIError.INVALID_SERVER,
                    "no server was found for your id", NoAdditional))
    ELSE [Pass(rq) EXCEPT !.ctx.server = server]

\* requires_server_online with the comparison inverted
requires_server_online_inverted(online, rq) ==
    IF rq.ctx.server = "" THEN Raise(rq, "AttributeError")
    ELSE IF online = running[rq.ctx.server]
    THEN Reject(rq, json_error(APIError.INVALID_SERVER_STATUS,
                    "this endpoint requires the server to be "
                        \o (IF online THEN "online" ELSE "offline"), NoAdditional))
    ELSE Pass(rq)

requires_server_online(online, rq) ==
    IF rq.ctx.server = "" THEN Raise(rq, "AttributeError")
    ELSE IF online # running[rq.ctx.server]
    THEN Reject(rq, json_error(APIError.INVALID_SERVER_STATUS,
                    "this endpoint requires the server to be "
                        \o (IF online THEN "online" ELSE "offline"), NoAdditional))
    ELSE Pass(rq)

\* the decorated_function of the decorator g, up to its call of f
Evaluate(g, rq) ==
    CASE g.name = "requires_login" -> requires_login(g.flag, rq)
      [] g.name = "requires_post_params" -> requires_post_params(g.json_keys, rq)
      [] g.name = "bind_model" -> bind_model(rq)
      [] g.name = "server_endpoint" -> server_endpoint(rq)
      [] g.name = "requires_server_online" -> requires_server_online(g.flag, rq)

\* decorated_function without the return of the json_error: a rejecting
\* decorator goes on to call f
RECURSIVE decorated_function_falls_through(_, _)
decorated_function_falls_through(rq, o) ==
    LET verdict == [out |-> o.out, resp |-> o.resp] IN
    CASE o.out = "await" -> [rq EXCEPT !.pc = "get_server"]
      [] o.out = "raise" ->
            [rq EXCEPT !.pc = "done", !.resp = o.resp,
                       !.verdicts = Append(@, verdict)]
      [] o.out \in {"pass", "reject"} ->
            LET nx == [rq EXCEPT !.pos = @ + 1, !.ctx = o.ctx, !.data = o.data,
                                 !.verdicts = Append(@, verdict)]
            IN IF nx.pos > Len(nx.guards)
               THEN [nx EXCEPT !.pc = "handler", !.invoked = TRUE]
               ELSE decorated_function_falls_through(nx, Evaluate(nx.guards[nx.pos], nx))

\* The nested decorated_functions: the decorator at rq.pos has had outcome o.
\* A pass awaits f, the next decorator or (after the last one) the handler;
\* a json_error is returned through all the callers unchanged; an exception
\* propagates to the framework; an await suspends the request.
RECURSIVE decorated_function(_, _)
decorated_function(rq, o) ==
    LET verdict == [out |-> o.out, resp |-> o.resp] IN
    CASE o.out = "await" -> [rq EXCEPT !.pc = "get_server"]
      [] o.out \in {"reject", "raise"} ->
            [rq EXCEPT !.pc = "done", !.resp = o.resp,
                       !.verdicts = Append(@, verdict)]
      [] o.out = "pass" ->
            LET nx == [rq EXCEPT !.pos = @ + 1, !.ctx = o.ctx, !.data = o.data,
                                 !.verdicts = Append(@, verdict)]
            IN IF nx.pos > Len(nx.guards)
               THEN [nx EXCEPT !.pc = "handler", !.invoked = TRUE]
               ELSE decorated_function(nx, Evaluate(nx.guards[nx.pos], nx))

Reverse(seq) == [k \in 1..Len(seq) |-> seq[Len(seq) + 1 - k]]

\* the decorators applied in the reverse order: the innermost runs first
call_route_innermost_first(rq) ==
    IF rq.guards = <<>>
    THEN [rq EXCEPT !.pc = "handler", !.invoked = TRUE]
    ELSE LET rv == [rq EXCEPT !.guards = Reverse(@)]
             res == decorated_function(rv, Evaluate(rv.guards[1], rv))
         IN [res EXCEPT !.guards = rq.guards]

\* the framework calls the outermost decorated_function of the route
call_route(rq) ==
    IF rq.guards = <<>>
    THEN [rq EXCEPT !.pc = "handler", !.invoked = TRUE]
    ELSE decorated_function(rq, Evaluate(rq.guards[1], rq))

----------------------------------------------------------------------------
(* semoxy/models (User, Session, WebsocketTicket), the session middleware  *)
(* and the server manager                                                  *)

\* the registered users; the user collection does not change
Users == {[name |-> "alice", password |-> "pw"]}
NoUser == [name |-> "", password |-> ""]

\* User.fetch_by_name
fetch_by_name(name) ==
    IF \E u \in Users : u.name = name
    THEN CHOOSE u \in Users : u.name = name
    ELSE NoUser

\* User.check_password
check_password(user, password) == password = user.password

\* User.create_session: a fresh id, expiration = now + configured TTL
create_session(user) ==
    [sid |-> nextSid, userId |-> user.name, expiration |-> now + SESSION_EXPIRATION]

\* the session middleware: the session of the carried id, iff it is in the
\* store and unexpired
resolve_session(sid) ==
    IF \E s \in sessions : s.sid = sid /\ now < s.expiration
    THEN CHOOSE s \in sessions : s.sid = sid /\ now < s.expiration
    ELSE NoSession

\* the session middleware: the user owning the session
resolve_user_for_session(session) == session.userId

\* Session.logout: delete the record; deleting an absent record is no error
session_logout(session) == {s \in sessions : s.sid # session.sid}

\* server_manager.get_server(i): the id of the server, "" for None
get_server(i) == IF i \in ServerIds THEN i ELSE ""

----------------------------------------------------------------------------
(* semoxy/endpoints/auth.py: the routes and the responses of the handlers  *)

\* json_res as the endpoints call it (auth.py imports the name json_res from
\* ..util, which defines json_response): status 200 unless given
json_res(di, status) == json_response(di, status)

Routes == [
    login_post |-> << Guard("requires_login", FALSE, <<>>),
                      Guard("requires_post_params", FALSE, <<"username", "password">>) >>,
    login_get |-> << >>,
    check_session |-> << >>,
    logout |-> << Guard("requires_login", requires_login_default, <<>>) >>,
    fetch_me |-> << Guard("requires_login", requires_login_default, <<>>) >>,
    open_ticket |-> << Guard("requires_login", requires_login_default, <<>>) >> ]

\* login_post telling an unknown user from a wrong password
login_post_response_leaky(user, session) ==
    IF session # NoSession
    THEN json_res([success |-> "logged in successfully",
                   data |-> [sessionId |-> session.sid]], 200)
    ELSE IF user = NoUser
    THEN json_res([error |-> "Wrong Credentials", status |-> 401,
                   description |-> "unknown user"], 401)
    ELSE json_res([error |-> "Wrong Credentials", status |-> 401,
                   description |-> "either username or password are wrong"], 401)

\* login_post, from the outcome of the two checks: session is the session
\* created, NoSession when the user is unknown or the password is wrong
login_post_response(user, session) ==
    IF session # NoSession
    THEN json_res([success |-> "logged in successfully",
                   data |-> [sessionId |-> session.sid]], 200)
    ELSE json_res([error |-> "Wrong Credentials", status |-> 401,
                   description |-> "either username or password are wrong"], 401)

\* login_get deciding on the session id the request carries instead of the
\* session the middleware resolved
login_get_response_carried(rq) ==
    IF rq.sid = 0
    THEN json_res([error |-> "Not Logged In", status |-> 401,
                   description |-> "please login using POST to /account/login"], 401)
    ELSE json_res([info |-> "you are already logged in", status |-> 200], 200)

login_get_response(rq) ==
    IF rq.ctx.session = NoSession
    THEN json_res([error |-> "Not Logged In", status |-> 401,
                   description |-> "please login using POST to /account/login"], 401)
    ELSE json_res([info |-> "you are already logged in", status |-> 200], 200)

\* check_session deciding on the session id the request carries instead
\* of the session the middleware resolved
check_session_response_carried(rq) ==
    LET out == [loggedIn |-> rq.sid # 0] IN
    IF rq.ctx.session # NoSession
    THEN json_res(DictUpdate(out, [expiration |-> rq.ctx.session.expiration,
                                   userId |-> rq.ctx.session.userId]), 200)
    ELSE json_res(out, 200)

check_session_response(rq) ==
    LET out == [loggedIn |-> rq.ctx.session # NoSession] IN
    IF rq.ctx.session # NoSession
    THEN json_res(DictUpdate(out, [expiration |-> rq.ctx.session.expiration,
                                   userId |-> rq.ctx.session.userId]), 200)
    ELSE json_res(out, 200)

logout_response == json_res([success |-> "logged out successfully",
                             data |-> [k \in {} |-> ""]], 200)

fetch_me_response(rq) ==
    json_res([username |-> rq.ctx.user, permissions |-> "permissions"], 200)

\* the handler of the generic route: it answers with what it was called with
generic_response(rq) ==
    json_res([success |-> "handled", data |-> [model |-> rq.data, server |-> rq.ctx.server]], 200)

open_ticket_response(token) ==
    json_res([success |-> "ticket created", data |-> [token |-> token]], 200)

----------------------------------------------------------------------------
(* The steps of a request *)

\* A request arrives in slot r and the session middleware resolves the
\* session and the user of the session id it carries.
Start(r, route, guards, sid, json, i, agent) ==
    /\ req[r].pc \in {"idle", "done"}
    /\ LET session == resolve_session(sid) IN
       req' = [req EXCEPT ![r] =
                 [Idle EXCEPT !.route = route, !.guards = guards, !.sid = sid,
                              !.json = json, !.i = i, !.agent = agent,
                              !.ctx = [session |-> session,
                                       user |-> resolve_user_for_session(session),
                                       server |-> ""],
                              !.pc = "guards",
                              !.after = (sid \in loggedOut),
                              !.expired = (\E h \in issued :
                                              /\ h.session.sid = sid
                                              /\ now >= h.session.expiration)]]
    /\ UNCHANGED <<sessions, tickets, nextSid, nextTid, running, now, ticks, issued, loggedOut>>

\* The handlers that await nothing (login_get, check_session, fetch_me and
\* the handler of the generic route) answer in the step that calls them;
\* the others suspend at their first store access.
handle(rq) ==
    IF rq.pc # "handler" THEN rq
    ELSE CASE rq.route = "login_get" ->
                [rq EXCEPT !.pc = "done", !.resp = login_get_response(rq)]
           [] rq.route = "check_session" ->
                [rq EXCEPT !.pc = "done", !.resp = check_session_response(rq)]
           [] rq.route = "fetch_me" ->
                [rq EXCEPT !.pc = "done", !.resp = fetch_me_response(rq)]
           [] rq.route = "generic" ->
                [rq EXCEPT !.pc = "done", !.resp = generic_response(rq)]
           [] OTHER -> rq

\* the decorators logging a request without a user in: a session of the
\* first registered user is created before the decorators run
RunGuards_creates_session(r) ==
    /\ req[r].pc = "guards"
    /\ req' = [req EXCEPT ![r] = handle(call_route(req[r]))]
    /\ IF req[r].ctx.user = ""
       THEN /\ sessions' = sessions \cup {create_session(CHOOSE u \in Users : TRUE)}
            /\ nextSid' = nextSid + 1
       ELSE UNCHANGED <<sessions, nextSid>>
    /\ UNCHANGED <<tickets, nextTid, running, now, ticks, issued, loggedOut>>

\* The decorators of the route run, outermost first, up to the first one
\* that answers, raises or awaits, or up to the call of the handler.
RunGuards(r) ==
    /\ req[r].pc = "guards"
    /\ req' = [req EXCEPT ![r] = handle(call_route(req[r]))]
    /\ UNCHANGED <<sessions, tickets, nextSid, nextTid, running, now, ticks, issued, loggedOut>>

\* server_manager.get_server answers and server_endpoint goes on; the
\* decorators after it run in the same step.
GetServer(r) ==
    /\ req[r].pc = "get_server"
    /\ LET rq == [req[r] EXCEPT !.pc = "guards", !.queried = TRUE] IN
       req' = [req EXCEPT ![r] =
                 handle(decorated_function(rq,
                            server_endpoint_resume(rq, get_server(rq.i))))]
    /\ UNCHANGED <<sessions, tickets, nextSid, nextTid, running, now, ticks, issued, loggedOut>>

Handler(r, route) == req[r].pc = "handler" /\ req[r].route = route

Respond(r, resp) == req' = [req EXCEPT ![r].pc = "done", ![r].resp = resp]

\* login_post with one session per user: the new session replaces the
\* sessions the user has
login_post_single_session(r) ==
    /\ Handler(r, "login_post")
    /\ LET rq == req[r]
           user == fetch_by_name(rq.json.username)
       IN IF user # NoUser /\ check_password(user, rq.json.password)
          THEN LET session == create_session(user) IN
               /\ sessions' = {s \in sessions : s.userId # user.name} \cup {session}
               /\ nextSid' = nextSid + 1
               /\ issued' = issued \cup {[session |-> session, creation |-> now]}
               /\ Respond(r, login_post_response(user, session))
          ELSE /\ Respond(r, login_post_response(user, NoSession))
               /\ UNCHANGED <<sessions, nextSid, issued>>
    /\ UNCHANGED <<tickets, nextTid, running, now, ticks, loggedOut>>

login_post(r) ==
    /\ Handler(r, "login_post")
    /\ LET rq == req[r]
           user == fetch_by_name(rq.json.username)
       IN IF user # NoUser /\ check_password(user, rq.json.password)
          THEN LET session == create_session(user) IN
               /\ sessions' = sessions \cup {session}
               /\ nextSid' = nextSid + 1
               /\ issued' = issued \cup {[session |-> session, creation |-> now]}
               /\ Respond(r, login_post_response(user, session))
          ELSE /\ Respond(r, login_post_response(user, NoSession))
               /\ UNCHANGED <<sessions, nextSid, issued>>
    /\ UNCHANGED <<tickets, nextTid, running, now, ticks, loggedOut>>

\* logout answering without the call of Session.logout
logout_keeps_session(r) ==
    /\ Handler(r, "logout")
    /\ loggedOut' = loggedOut \cup {req[r].ctx.session.sid}
    /\ Respond(r, logout_response)
    /\ UNCHANGED <<sessions, tickets, nextSid, nextTid, running, now, ticks, issued>>

\* logout failing when the record of the session is no longer in the store
logout_strict(r) ==
    /\ Handler(r, "logout")
    /\ IF req[r].ctx.session \in sessions
       THEN /\ sessions' = session_logout(req[r].ctx.session)
            /\ loggedOut' = loggedOut \cup {req[r].ctx.session.sid}
            /\ Respond(r, logout_response)
       ELSE /\ Respond(r, ServerError("KeyError"))
            /\ UNCHANGED <<sessions, loggedOut>>
    /\ UNCHANGED <<tickets, nextSid, nextTid, running, now, ticks, issued>>

logout(r) ==
    /\ Handler(r, "logout")
    /\ sessions' = session_logout(req[r].ctx.session)
    /\ loggedOut' = loggedOut \cup {req[r].ctx.session.sid}
    /\ Respond(r, logout_response)
    /\ UNCHANGED <<tickets, nextSid, nextTid, running, now, ticks, issued>>

\* open_ticket up to the first store access of create_ticket: the agent
\* header is read (a missing header raises KeyError) and get_new_ticket
\* draws its first candidate
open_ticket(r) ==
    /\ Handler(r, "open_ticket")
    /\ IF req[r].agent = "absent"
       THEN Respond(r, ServerError("KeyError"))
       ELSE \E t \in Tokens :
                req' = [req EXCEPT ![r].pc = "find_one", ![r].ticket = t,
                                   ![r].agent = IF @ = "" THEN "unknown agent" ELSE @]
    /\ UNCHANGED <<sessions, tickets, nextSid, nextTid, running, now, ticks, issued, loggedOut>>

\* db["wsticket"].find_one({"ticket": ticket})
find_one(ticket) == \E t \in tickets : t.ticket = ticket

\* get_new_ticket with the store asked once: the candidate drawn after a
\* collision is returned unchecked
get_new_ticket_checks_once(r) ==
    /\ req[r].pc = "find_one"
    /\ IF find_one(req[r].ticket)
       THEN /\ req[r].attempts < MaxAttempts
            /\ \E t \in Tokens :
                 req' = [req EXCEPT ![r].ticket = t, ![r].attempts = @ + 1,
                                    ![r].pc = "insert"]
       ELSE req' = [req EXCEPT ![r].pc = "insert"]
    /\ UNCHANGED <<sessions, tickets, nextSid, nextTid, running, now, ticks, issued, loggedOut>>

\* get_new_ticket: one evaluation of the loop condition; on a collision a
\* new candidate is drawn and the loop goes on, otherwise the candidate is
\* returned to create_ticket
get_new_ticket(r) ==
    /\ req[r].pc = "find_one"
    /\ IF find_one(req[r].ticket)
       THEN /\ req[r].attempts < MaxAttempts
            /\ \E t \in Tokens :
                 req' = [req EXCEPT ![r].ticket = t, ![r].attempts = @ + 1]
       ELSE req' = [req EXCEPT ![r].pc = "insert"]
    /\ UNCHANGED <<sessions, tickets, nextSid, nextTid, running, now, ticks, issued, loggedOut>>

\* User.create_ticket: the ticket is inserted and open_ticket answers
create_ticket(r) ==
    /\ req[r].pc = "insert"
    /\ tickets' = tickets \cup {[id |-> nextTid, ticket |-> req[r].ticket,
                                 user |-> req[r].ctx.user, agent |-> req[r].agent]}
    /\ nextTid' = nextTid + 1
    /\ Respond(r, open_ticket_response(req[r].ticket))
    /\ UNCHANGED <<sessions, nextSid, running, now, ticks, issued, loggedOut>>

----------------------------------------------------------------------------
(* The environment: the clock, the purge of expired sessions, the managed  *)
(* servers                                                                 *)

Tick ==
    /\ ticks < MaxTicks
    /\ \E d \in {SESSION_EXPIRATION - 1, SESSION_EXPIRATION} : now' = now + d
    /\ ticks' = ticks + 1
    /\ UNCHANGED <<req, sessions, tickets, nextSid, nextTid, running, issued, loggedOut>>

Purge ==
    /\ \E s \in sessions : now >= s.expiration
    /\ sessions' = {s \in sessions : now < s.expiration}
    /\ UNCHANGED <<req, tickets, nextSid, nextTid, running, now, ticks, issued, loggedOut>>

ToggleRunning(s) ==
    /\ running' = [running EXCEPT ![s] = ~@]
    /\ UNCHANGED <<req, sessions, tickets, nextSid, nextTid, now, ticks, issued, loggedOut>>

----------------------------------------------------------------------------
(* Spec: the account endpoints login, session, logout and "who am I",      *)
(* requests in flight together, the clock running                          *)

Init ==
    /\ req = [r \in Slots |-> Idle]
    /\ sessions = {}
    /\ tickets = {}
    /\ nextSid = 1
    /\ nextTid = 1
    /\ running = [s \in ServerIds |-> FALSE]
    /\ now = 0
    /\ ticks = 0
    /\ issued = {}
    /\ loggedOut = {}

\* the payloads a client sends to POST /account/login
LoginPayloads ==
    {NoJson} \cup
    {[kind |-> "object", keys |-> ks, username |-> u, password |-> p, valid |-> TRUE] :
        ks \in SUBSET Keys, u \in Names, p \in Passwords}

\* a value is carried for the keys of the payload only; the value of a
\* lone key is read by nobody, so one value stands for all
WellFormed(json) ==
    \/ json.kind # "object"
    \/ json.keys = Keys
    \/ json.username = "alice" /\ json.password = "pw"

InFlight(route) == Cardinality({r \in Slots : req[r].route = route /\ req[r].pc # "done"})

AccountRoutes == {"login_post", "login_get", "check_session", "logout", "fetch_me"}

StartAccount(r) ==
    /\ req[r].pc \in {"idle", "done"}
    /\ \E route \in AccountRoutes, sid \in 0..(nextSid - 1) :
         /\ route = "login_post" => (nextSid - 1) + InFlight(route) < MaxSessions
         /\ \E json \in (IF route = "login_post"
                         THEN {j \in LoginPayloads : WellFormed(j)} ELSE {NoJson}) :
                Start(r, route, Routes[route], sid, json, "", "")

Next ==
    \/ \E r \in Slots :
         \/ StartAccount(r)
         \/ RunGuards(r)
         \/ login_post(r)
         \/ logout(r)
    \/ Tick
    \/ Purge

Spec == Init /\ [][Next]_vars

----------------------------------------------------------------------------
(* SpecTicket: GET /account/ticket, requests in flight together, with one  *)
(* user logged in                                                          *)

\* the state after alice has logged in at time 0
InitLoggedIn ==
    /\ req = [r \in Slots |-> Idle]
    /\ sessions = {[sid |-> 1, userId |-> "alice", expiration |-> SESSION_EXPIRATION]}
    /\ tickets = {}
    /\ nextSid = 2
    /\ nextTid = 1
    /\ running = [s \in ServerIds |-> FALSE]
    /\ now = 0
    /\ ticks = 0
    /\ issued = {[session |-> [sid |-> 1, userId |-> "alice",
                                expiration |-> SESSION_EXPIRATION],
                   creation |-> 0]}
    /\ loggedOut = {}

\* the User-Agent header: not sent, sent empty, sent with a value
Agents == {"absent", "", "Mozilla"}

StartTicket(r) ==
    /\ req[r].pc \in {"idle", "done"}
    /\ Cardinality(tickets) + InFlight("open_ticket") < MaxTickets
    /\ \E sid \in 0..(nextSid - 1), agent \in Agents :
            Start(r, "open_ticket", Routes["open_ticket"], sid, NoJson, "", agent)

NextTicket ==
    \E r \in Slots :
        \/ StartTicket(r)
        \/ RunGuards(r)
        \/ open_ticket(r)
        \/ get_new_ticket(r)
        \/ create_ticket(r)

SpecTicket == InitLoggedIn /\ [][NextTicket]_vars

----------------------------------------------------------------------------
(* SpecIssuer: GET /account/ticket, one request after the other: nothing   *)
(* writes to the wsticket collection while get_new_ticket runs             *)

NextIssuer ==
    \/ StartTicket(1)
    \/ RunGuards(1)
    \/ open_ticket(1)
    \/ get_new_ticket(1)
    \/ create_ticket(1)

SpecIssuer == InitLoggedIn /\ [][NextIssuer]_vars

----------------------------------------------------------------------------
(* SpecGuards: one request to a route wrapped by any chain of decorators,  *)
(* with any payload and route parameters                                   *)

GuardSet ==
    {Guard("requires_login", b, <<>>) : b \in BOOLEAN}
    \cup {Guard("requires_post_params", FALSE, ks) :
            ks \in {<<>>, <<"username", "password">>, <<"password", "username">>}}
    \cup {Guard("bind_model", FALSE, <<>>), Guard("server_endpoint", FALSE, <<>>)}
    \cup {Guard("requires_server_online", b, <<>>) : b \in BOOLEAN}

Chains == UNION {[1..k -> GuardSet] : k \in 0..MaxChain}

GenericPayloads ==
    {NoJson, [NoJson EXCEPT !.kind = "array"]} \cup
    {[kind |-> "object", keys |-> ks, username |-> "alice", password |-> "pw",
      valid |-> v] : ks \in SUBSET Keys, v \in BOOLEAN}

\* the <i> parameter of the path: none, a server, no server
RouteParams == {"", "s1", "zz"}

StartGeneric(r) ==
    /\ req[r].pc = "idle"
    /\ \E guards \in Chains, sid \in 0..(nextSid - 1), json \in GenericPayloads,
          i \in RouteParams :
            Start(r, "generic", guards, sid, json, i, "")

NextGuards ==
    \/ StartGeneric(1)
    \/ RunGuards(1)
    \/ GetServer(1)
    \/ \E s \in ServerIds : ToggleRunning(s)

SpecGuards == InitLoggedIn /\ [][NextGuards]_vars

----------------------------------------------------------------------------
(* SpecSessions: logins and logouts in flight together, one session in the *)
(* store from the start, the clock running                                 *)

\* the payloads of the logins: the credentials of alice, a wrong password,
\* no field at all
SessionPayloads ==
    {[kind |-> "object", keys |-> Keys, username |-> "alice", password |-> p,
      valid |-> TRUE] : p \in Passwords}
    \cup {[kind |-> "object", keys |-> {}, username |-> "alice", password |-> "pw",
           valid |-> TRUE]}

StartSession(r) ==
    /\ req[r].pc \in {"idle", "done"}
    /\ \E route \in {"login_post", "logout"}, sid \in 0..(nextSid - 1) :
         /\ route = "login_post" => (nextSid - 2) + InFlight(route) < MaxLogins
         /\ \E json \in (IF route = "login_post" THEN SessionPayloads ELSE {NoJson}) :
                Start(r, route, Routes[route], sid, json, "", "")

NextSessions ==
    \/ \E r \in Slots :
         \/ StartSession(r)
         \/ RunGuards(r)
         \/ login_post(r)
         \/ logout(r)
    \/ Tick
    \/ Purge

SpecSessions == InitLoggedIn /\ [][NextSessions]_vars

----------------------------------------------------------------------------
(* SpecServers: requests to the routes of a managed server and logouts in  *)
(* flight together, the running flag of the server changing                *)

\* the decorators of the server routes: server_endpoint, then
\* requires_server_online, behind requires_login or not
ServerChains ==
    {<< Guard("server_endpoint", FALSE, <<>>),
        Guard("requires_server_online", b, <<>>) >> : b \in BOOLEAN}
    \cup {<< Guard("requires_login", requires_login_default, <<>>),
             Guard("server_endpoint", FALSE, <<>>),
             Guard("requires_server_online", b, <<>>) >> : b \in BOOLEAN}

StartServer(r) ==
    /\ req[r].pc \in {"idle", "done"}
    /\ \E guards \in ServerChains, sid \in 0..(nextSid - 1), i \in RouteParams :
            Start(r, "generic", guards, sid, NoJson, i, "")

StartLogout(r) ==
    /\ req[r].pc \in {"idle", "done"}
    /\ \E sid \in 0..(nextSid - 1) :
            Start(r, "logout", Routes["logout"], sid, NoJson, "", "")

NextServers ==
    \/ \E r \in Slots :
         \/ StartServer(r)
         \/ StartLogout(r)
         \/ RunGuards(r)
         \/ GetServer(r)
         \/ logout(r)
    \/ \E s \in ServerIds : ToggleRunning(s)

SpecServers == InitLoggedIn /\ [][NextServers]_vars

----------------------------------------------------------------------------
(* Properties of the decorators *)

\* resp is the json_error of the taxonomy entry
IsError(resp, entry) ==
    /\ resp.status = entry[2]
    /\ "error" \in DOMAIN resp.body
    /\ resp.body.error = "err_ " \o entry[1]

\* resp is an error the decorator g can answer with
IsGuardError(g, resp) ==
    CASE g.name = "requires_login" ->
            IsError(resp, IF g.flag THEN APIError.UNAUTHENTICATED ELSE APIError.NO_PERMISSION)
      [] g.name = "requires_post_params" ->
            /\ IsError(resp, APIError.MISSING_VALUE)
            /\ \E k \in 1..Len(g.json_keys) : resp.body.field = g.json_keys[k]
      [] g.name = "bind_model" -> IsError(resp, APIError.INVALID_PAYLOAD_SCHEMA)
      [] g.name = "server_endpoint" ->
            IsError(resp, APIError.MISSING_VALUE) \/ IsError(resp, APIError.INVALID_SERVER)
      [] g.name = "requires_server_online" -> IsError(resp, APIError.INVALID_SERVER_STATUS)

\* the decorators whose verdict depends on the request alone
Static(g) == g.name \in {"requires_login", "requires_post_params", "bind_model"}

\* the keys of the payload of the request
PayloadKeys(rq) == IF rq.json.kind = "object" THEN rq.json.keys ELSE {}

\* C1: when a decorator rejects, the response is the error of the first
\* rejecting decorator in attachment order, no decorator after it has been
\* evaluated and the handler has not been invoked; the handler is invoked
\* only when every decorator has passed.
C1_ShortCircuit ==
    \A r \in Slots :
        LET rq == req[r]
            n == Len(rq.verdicts)
        IN /\ n <= Len(rq.guards)
           /\ \A k \in 1..n : k < n => rq.verdicts[k].out = "pass"
           /\ (n > 0 /\ rq.verdicts[n].out = "reject") =>
                /\ rq.pc = "done"
                /\ ~rq.invoked
                /\ rq.resp = rq.verdicts[n].resp
                /\ IsGuardError(rq.guards[n], rq.resp)
           /\ rq.invoked =>
                /\ n = Len(rq.guards)
                /\ \A k \in 1..n : rq.verdicts[k].out = "pass"
           /\ \A k \in 1..Len(rq.guards) :
                (Static(rq.guards[k]) /\ Evaluate(rq.guards[k], rq).out = "reject") =>
                    /\ ~rq.invoked
                    /\ k >= n
                    /\ k = n => rq.resp = Evaluate(rq.guards[k], rq).resp

\* a request both of whose decorators reject has been answered with the
\* error of the first one, the second one not evaluated
C1_Witness ==
    \E r \in Slots :
        LET rq == req[r] IN
        /\ rq.pc = "done"
        /\ Len(rq.guards) = 2
        /\ Len(rq.verdicts) = 1
        /\ rq.verdicts[1].out = "reject"
        /\ Static(rq.guards[2])
        /\ rq.guards[2].name # rq.guards[1].name
        /\ Evaluate(rq.guards[2], rq).out = "reject"
        /\ rq.resp = rq.verdicts[1].resp
        /\ ~rq.invoked

LoginStateWrong(expected, rq) == expected # (rq.ctx.user # "")

FieldsMissing(json_keys, rq) ==
    \E k \in 1..Len(json_keys) : json_keys[k] \notin PayloadKeys(rq)

\* C2: a request to a route with requires_login attached first and
\* requires_post_params after it, with the wrong login state and a listed
\* field missing, is answered with the login-state error (UNAUTHENTICATED
\* for requires_login(True), NO_PERMISSION for requires_login(False)) and
\* never with MISSING_VALUE.
C2_LoginBeforeParams ==
    \A r \in Slots :
        LET rq == req[r] IN
        ( /\ rq.pc = "done"
          /\ Len(rq.guards) >= 2
          /\ rq.guards[1].name = "requires_login"
          /\ LoginStateWrong(rq.guards[1].flag, rq)
          /\ \E j \in 2..Len(rq.guards) :
                /\ rq.guards[j].name = "requires_post_params"
                /\ FieldsMissing(rq.guards[j].json_keys, rq) )
        => /\ IsError(rq.resp, IF rq.guards[1].flag THEN APIError.UNAUTHENTICATED
                                                    ELSE APIError.NO_PERMISSION)
           /\ ~IsError(rq.resp, APIError.MISSING_VALUE)
           /\ Len(rq.verdicts) = 1

\* the decorators of login_post, a logged-in request without the fields:
\* answered with NO_PERMISSION
C2_Witness ==
    \E r \in Slots :
        LET rq == req[r] IN
        /\ rq.pc = "done"
        /\ rq.guards = Routes.login_post
        /\ rq.ctx.user # ""
        /\ rq.json.kind = "object"
        /\ rq.json.keys = {}
        /\ IsError(rq.resp, APIError.NO_PERMISSION)

\* C9: requires_login(expected) rejects with UNAUTHENTICATED (401) exactly
\* when expected is true and the request has no user, rejects with
\* NO_PERMISSION (403) exactly when expected is false and the request has a
\* user, and otherwise passes the request on unchanged; without argument
\* it is requires_login(True).
C9_RequiresLogin ==
    \A r \in Slots :
        LET rq == req[r] IN
        rq.pc # "idle" =>
          /\ \A expected \in BOOLEAN :
                LET o == requires_login(expected, rq)
                    has == rq.ctx.user # ""
                IN /\ o.out \in {"pass", "reject"}
                   /\ (o.out = "reject" /\ IsError(o.resp, APIError.UNAUTHENTICATED))
                        <=> (expected /\ ~has)
                   /\ (o.out = "reject" /\ IsError(o.resp, APIError.NO_PERMISSION))
                        <=> (~expected /\ has)
                   /\ (expected = has) <=> (o.out = "pass")
                   /\ o.out = "pass" => (o.ctx = rq.ctx /\ o.data = rq.data)
                   /\ IsError(o.resp, APIError.UNAUTHENTICATED) => o.resp.status = 401
                   /\ IsError(o.resp, APIError.NO_PERMISSION) => o.resp.status = 403
          /\ requires_login(requires_login_default, rq) = requires_login(TRUE, rq)
          /\ \A k \in 1..Len(rq.verdicts) :
                rq.guards[k].name = "requires_login" =>
                    LET o == requires_login(rq.guards[k].flag, rq) IN
                    rq.verdicts[k] = [out |-> o.out, resp |-> o.resp]

\* requires_login(False) has rejected a logged-in request with 403 and
\* requires_login(True) would pass it
C9_Witness ==
    \E r \in Slots :
        LET rq == req[r] IN
        /\ rq.pc = "done"
        /\ rq.guards # <<>>
        /\ rq.guards[1] = Guard("requires_login", FALSE, <<>>)
        /\ rq.ctx.user # ""
        /\ rq.verdicts[1].out = "reject"
        /\ rq.resp.status = 403
        /\ requires_login(TRUE, rq).out = "pass"

\* C10: requires_post_params(n1, ..., nk) passes a request iff every listed
\* name is a key of the payload; otherwise it rejects with MISSING_VALUE
\* whose field is the first listed name, in declaration order, that is
\* absent from the payload.
C10_RequiresPostParams ==
    \A r \in Slots :
        LET rq == req[r] IN
        \A k \in 1..Len(rq.verdicts) :
            rq.guards[k].name = "requires_post_params" =>
                LET names == rq.guards[k].json_keys
                    absent == {j \in 1..Len(names) : names[j] \notin PayloadKeys(rq)}
                    v == rq.verdicts[k]
                IN IF absent = {}
                   THEN v.out = "pass"
                   ELSE /\ v.out = "reject"
                        /\ IsError(v.resp, APIError.MISSING_VALUE)
                        /\ v.resp.body.field =
                              names[CHOOSE j \in absent : \A i \in absent : j <= i]

\* requires_post_params on the payloads that are JSON objects: it passes iff
\* every listed name is a key, and else reports the first absent name
RequiresPostParamsOnObjects ==
    \A r \in Slots :
        LET rq == req[r] IN
        \A k \in 1..Len(rq.verdicts) :
            (rq.guards[k].name = "requires_post_params" /\ rq.json.kind = "object") =>
                LET names == rq.guards[k].json_keys
                    absent == {j \in 1..Len(names) : names[j] \notin rq.json.keys}
                    v == rq.verdicts[k]
                IN IF absent = {}
                   THEN v.out = "pass"
                   ELSE /\ v.out = "reject"
                        /\ IsError(v.resp, APIError.MISSING_VALUE)
                        /\ v.resp.body.field =
                              names[CHOOSE j \in absent : \A i \in absent : j <= i]

----------------------------------------------------------------------------
(* Properties of the ticket issuer *)

\* C3: the tokens of the tickets in the store are pairwise distinct: no two
\* issuances pass the collision check for the same token and both persist
\* it.
C3_TokensDistinct ==
    \A t1, t2 \in tickets : t1.ticket = t2.ticket => t1 = t2

\* C4: get_new_ticket regenerates a colliding token at most RetryCeiling
\* times and then ends with an internal error.
C4_BoundedRetries ==
    \A r \in Slots : req[r].attempts <= RetryCeiling

----------------------------------------------------------------------------
(* Properties of the account endpoints *)

\* the request carries the name and the password of a registered user
CredentialsOK(rq) ==
    \E u \in Users : u.name = rq.json.username /\ u.password = rq.json.password

\* POST /account/login has passed its decorators and has answered
LoginHandled(rq) == rq.route = "login_post" /\ rq.pc = "done" /\ rq.invoked

\* C5: the failure response of POST /account/login is the same, with
\* status 401, whether the username is unknown or the password is wrong,
\* and a session id is returned only when the user exists and the password
\* check succeeds.
C5_UniformLoginFailure ==
    /\ \A r1, r2 \in Slots :
         ( /\ LoginHandled(req[r1]) /\ ~CredentialsOK(req[r1])
           /\ LoginHandled(req[r2]) /\ ~CredentialsOK(req[r2]) )
         => /\ req[r1].resp = req[r2].resp
            /\ req[r1].resp.status = 401
            /\ "data" \notin DOMAIN req[r1].resp.body
    /\ \A r \in Slots :
         ( /\ req[r].route = "login_post" /\ req[r].pc = "done"
           /\ "data" \in DOMAIN req[r].resp.body )
         => /\ LoginHandled(req[r])
            /\ CredentialsOK(req[r])
            /\ \E h \in issued :
                 /\ h.session.sid = req[r].resp.body.data.sessionId
                 /\ h.session.userId = req[r].json.username

\* one login with an unknown username and one with a wrong password have
\* both been answered
C5_Witness ==
    \E r1, r2 \in Slots :
        /\ LoginHandled(req[r1]) /\ LoginHandled(req[r2])
        /\ fetch_by_name(req[r1].json.username) = NoUser
        /\ fetch_by_name(req[r2].json.username) # NoUser
        /\ ~CredentialsOK(req[r2])
        /\ req[r1].resp = req[r2].resp

\* the outermost decorator of the route is requires_login(True)
RequiresLogin(rq) ==
    rq.guards # <<>> /\ rq.guards[1] = Guard("requires_login", TRUE, <<>>)

\* the request has been treated as carrying no session
TreatedAsAbsent(rq) ==
    /\ rq.ctx.session = NoSession
    /\ rq.ctx.user = ""
    /\ (rq.pc = "done" /\ rq.route = "check_session") =>
            rq.resp = json_response([loggedIn |-> FALSE], 200)
    /\ (rq.pc = "done" /\ RequiresLogin(rq)) =>
            (IsError(rq.resp, APIError.UNAUTHENTICATED) /\ ~rq.invoked)

\* the request has been treated as carrying the session s
TreatedAsLoggedIn(rq, s) ==
    /\ rq.ctx.session = s
    /\ rq.ctx.user = s.userId
    /\ (rq.pc = "done" /\ rq.route = "check_session") =>
            /\ rq.resp.status = 200
            /\ rq.resp.body.loggedIn = TRUE
            /\ rq.resp.body.expiration = s.expiration
            /\ rq.resp.body.userId = s.userId
    /\ (rq.pc \in {"handler", "done"} /\ RequiresLogin(rq)) =>
            (rq.verdicts[1].out = "pass" /\ rq.invoked)

\* C6: a request that starts after the logout of the session it carries has
\* completed resolves to no session: GET /account/session answers loggedIn
\* false and requires_login(True) rejects it with UNAUTHENTICATED.
C6_LogoutInvalidates ==
    \A r \in Slots :
        (req[r].pc # "idle" /\ req[r].after) => TreatedAsAbsent(req[r])

\* GET /account/session has answered loggedIn true for a session and, in a
\* request started after the logout of that session, loggedIn false
C6_Witness ==
    \E r1, r2 \in Slots :
        /\ req[r1].route = "check_session" /\ req[r1].pc = "done"
        /\ req[r2].route = "check_session" /\ req[r2].pc = "done"
        /\ req[r1].sid # 0 /\ req[r1].sid = req[r2].sid
        /\ req[r1].resp.body.loggedIn = TRUE
        /\ req[r2].after
        /\ req[r2].resp.body.loggedIn = FALSE

\* C7: a session created at time c expires at e = c + SESSION_EXPIRATION; a
\* request resolved at a time t < e, the session not logged out, is treated
\* as logged in by requires_login and by GET /account/session; one resolved
\* at a time t >= e is treated as carrying no session, whether or not the
\* expired record has been purged.
C7_Expiration ==
    /\ \A h \in issued : h.session.expiration = h.creation + SESSION_EXPIRATION
    /\ \A r \in Slots :
         LET rq == req[r] IN
         rq.pc # "idle" =>
            /\ rq.expired => TreatedAsAbsent(rq)
            /\ \A h \in issued :
                 (h.session.sid = rq.sid /\ ~rq.expired /\ ~rq.after)
                     => TreatedAsLoggedIn(rq, h.session)

\* GET /account/session has answered loggedIn false to a request resolved at
\* the expiration time of its session, the record still in the store
C7_Witness ==
    \E r \in Slots :
        /\ req[r].route = "check_session" /\ req[r].pc = "done"
        /\ req[r].expired
        /\ \E s \in sessions : s.sid = req[r].sid /\ now = s.expiration
        /\ req[r].resp.body.loggedIn = FALSE

\* C8: every error response is an envelope whose error field is the string
\* code of an entry of APIError and whose status is the status of that
\* entry.
C8_ErrorsInTaxonomy ==
    \A r \in Slots :
        (req[r].pc = "done" /\ "error" \in DOMAIN req[r].resp.body) =>
            \E e \in DOMAIN APIError :
                /\ req[r].resp.body.error = APIError[e][1]
                /\ req[r].resp.status = APIError[e][2]

----------------------------------------------------------------------------
(* Properties of the server decorators *)

\* the positions of the decorator called name that have given their verdict
Evaluated(rq, name) ==
    {k \in 1..Len(rq.verdicts) : rq.guards[k].name = name}

\* C11: server_endpoint rejects with MISSING_VALUE (400) when the route
\* parameters carry no server id, without a query of the server manager;
\* rejects with INVALID_SERVER (404) when the id is there and get_server
\* answers nothing; otherwise attaches the server get_server answered and
\* passes on.  req.ctx.server is set only when it passes, so a handler
\* behind server_endpoint runs with the server of the requested id.
C11_ServerEndpoint ==
    \A r \in Slots :
        LET rq == req[r] IN
        /\ rq.i = "" => ~rq.queried
        /\ \A k \in Evaluated(rq, "server_endpoint") :
             LET v == rq.verdicts[k] IN
             /\ rq.i = "" =>
                  /\ v.out = "reject"
                  /\ IsError(v.resp, APIError.MISSING_VALUE)
                  /\ v.resp.status = 400
             /\ (rq.i # "" /\ get_server(rq.i) = "") =>
                  /\ v.out = "reject"
                  /\ IsError(v.resp, APIError.INVALID_SERVER)
                  /\ v.resp.status = 404
                  /\ rq.queried
                  /\ rq.ctx.server = ""
             /\ (rq.i # "" /\ get_server(rq.i) # "") =>
                  /\ v.out = "pass"
                  /\ rq.queried
                  /\ rq.ctx.server = get_server(rq.i)
        /\ rq.ctx.server # "" =>
             /\ rq.ctx.server = get_server(rq.i)
             /\ \E k \in Evaluated(rq, "server_endpoint") : rq.verdicts[k].out = "pass"
        /\ (rq.invoked /\ \E k \in 1..Len(rq.guards) : rq.guards[k].name = "server_endpoint") =>
             /\ rq.ctx.server # ""
             /\ rq.ctx.server = get_server(rq.i)
             /\ rq.ctx.server = rq.i

\* the handler behind server_endpoint has run with the server of the id of
\* the path and has answered
C11_Witness ==
    \E r \in Slots :
        LET rq == req[r] IN
        /\ rq.pc = "done"
        /\ rq.guards = << Guard("server_endpoint", FALSE, <<>>) >>
        /\ rq.i = "s1"
        /\ rq.queried
        /\ rq.invoked
        /\ rq.ctx.server = "s1"
        /\ rq.resp = generic_response(rq)

\* the positions of the decorator called name whose verdict is given in
\* this step
EvaluatedNow(r, name) == Evaluated(req'[r], name) \ Evaluated(req[r], name)

\* C12: requires_server_online(expected) behind server_endpoint, for both
\* values of expected, rejects with INVALID_SERVER_STATUS (423) iff the
\* running flag of the resolved server differs from expected when the
\* decorator is evaluated and passes iff it equals expected; a request
\* rejected while the flag is false passes once the flag is true (and the
\* other way round for expected = false).
C12_RequiresServerOnline ==
    [][ \A r \in Slots :
          \A k \in EvaluatedNow(r, "requires_server_online") :
            LET rq == req'[r]
                expected == rq.guards[k].flag
                v == rq.verdicts[k]
            IN (\E j \in 1..(k - 1) : rq.guards[j].name = "server_endpoint") =>
                 /\ rq.ctx.server = get_server(rq.i)
                 /\ v.out \in {"pass", "reject"}
                 /\ v.out = "pass" <=> running[rq.ctx.server] = expected
                 /\ v.out = "reject" <=> running[rq.ctx.server] # expected
                 /\ v.out = "reject" =>
                      /\ IsError(v.resp, APIError.INVALID_SERVER_STATUS)
                      /\ v.resp.status = 423
                      /\ rq.resp = v.resp
                      /\ ~rq.invoked
                 /\ v.out = "pass" => rq.invoked
      ]_vars

\* the same request has been sent twice: requires_server_online(True) has
\* rejected it with 423 and, the flag flipped to true since, has passed it
C12_Witness ==
    \E r1, r2 \in Slots :
        /\ req[r1].pc = "done" /\ req[r2].pc = "done"
        /\ req[r1].guards = << Guard("server_endpoint", FALSE, <<>>),
                               Guard("requires_server_online", TRUE, <<>>) >>
        /\ req[r2].guards = req[r1].guards
        /\ req[r1].i = "s1" /\ req[r2].i = "s1"
        /\ req[r1].sid = req[r2].sid
        /\ IsError(req[r1].resp, APIError.INVALID_SERVER_STATUS)
        /\ req[r1].resp.status = 423
        /\ req[r2].invoked
        /\ req[r2].verdicts[2].out = "pass"
        /\ running["s1"]

----------------------------------------------------------------------------
(* Properties of GET /account/ticket *)

\* C13: every logged-in GET /account/ticket request is answered with the
\* token of a ticket issued to its user; a request without a User-Agent
\* header succeeds as well, its ticket bound to the agent "unknown agent".
C13_TicketIssued ==
    \A r \in Slots :
        LET rq == req[r] IN
        (rq.route = "open_ticket" /\ rq.pc = "done" /\ rq.ctx.user # "") =>
            /\ rq.resp.status = 200
            /\ "data" \in DOMAIN rq.resp.body
            /\ \E t \in tickets :
                 /\ t.ticket = rq.resp.body.data.token
                 /\ t.user = rq.ctx.user
                 /\ rq.agent \in {"absent", "unknown agent"} => t.agent = "unknown agent"

----------------------------------------------------------------------------
(* Properties of the session store *)

\* the handler of the route called route answers the request of slot r in
\* this step
Answers(r, route) ==
    /\ req[r].route = route
    /\ req[r].pc = "handler"
    /\ req'[r].pc = "done"

\* C14: a logout that has passed requires_login always answers with the
\* 200 success response, also when another logout of the same session has
\* deleted the record before it; the store is then without that session
\* and every other session is unchanged.
C14_LogoutIdempotent ==
    [][ \A r \in Slots :
          /\ Answers(r, "logout") =>
               /\ req'[r].resp = logout_response
               /\ req'[r].resp.status = 200
               /\ \A s \in sessions : s.sid # req[r].ctx.session.sid => s \in sessions'
               /\ sessions' \subseteq sessions
          /\ (req'[r].route = "logout" /\ req'[r].pc = "done" /\ req'[r].invoked) =>
               /\ req'[r].resp.status = 200
               /\ \A s \in sessions' : s.sid # req'[r].ctx.session.sid
      ]_vars

\* two logouts of the same session have both passed requires_login and
\* have both answered 200; the session is gone, another one is still there
C14_Witness ==
    \E r1, r2 \in Slots :
        /\ r1 # r2
        /\ req[r1].route = "logout" /\ req[r2].route = "logout"
        /\ req[r1].pc = "done" /\ req[r2].pc = "done"
        /\ req[r1].invoked /\ req[r2].invoked
        /\ req[r1].ctx.session # NoSession
        /\ req[r1].ctx.session = req[r2].ctx.session
        /\ req[r1].resp = logout_response /\ req[r2].resp = logout_response
        /\ \A s \in sessions : s.sid # req[r1].ctx.session.sid
        /\ sessions # {}

\* the answer of POST /account/login carries a session id
LoggedIn(resp) == resp.status = 200 /\ "data" \in DOMAIN resp.body

\* C15: a successful login_post adds exactly one new session to the store:
\* it belongs to the authenticated user, its id differs from every
\* existing one and its expiration is now + SESSION_EXPIRATION; all the
\* sessions there were, other sessions of the same user included, are
\* unchanged.  A login_post that a decorator rejects or whose credential
\* check fails adds no session and changes nothing in the store.
C15_LoginAddsOneSession ==
    [][ \A r \in Slots :
          /\ Answers(r, "login_post") =>
               /\ LoggedIn(req'[r].resp) <=> CredentialsOK(req[r])
               /\ LoggedIn(req'[r].resp) =>
                    \E s \in sessions' \ sessions :
                        /\ sessions' = sessions \cup {s}
                        /\ Cardinality(sessions') = Cardinality(sessions) + 1
                        /\ s.userId = req[r].json.username
                        /\ \A o \in sessions : o.sid # s.sid
                        /\ \A h \in issued : h.session.sid # s.sid
                        /\ s.expiration = now + SESSION_EXPIRATION
                        /\ req'[r].resp.body.data.sessionId = s.sid
                        /\ tickets' = tickets
          /\ ( /\ req'[r] # req[r]
               /\ req'[r].route = "login_post"
               /\ ~(Answers(r, "login_post") /\ LoggedIn(req'[r].resp)) ) =>
               /\ sessions' = sessions
               /\ tickets' = tickets
               /\ nextSid' = nextSid
      ]_vars

\* a login has been answered with the id of a second session of alice,
\* created at a later time than her first one, which is still in the store
C15_Witness ==
    \E r \in Slots :
        /\ req[r].route = "login_post" /\ req[r].pc = "done"
        /\ LoggedIn(req[r].resp)
        /\ \E s1, s2 \in sessions :
             /\ s1.sid = 1
             /\ s2.sid = req[r].resp.body.data.sessionId
             /\ s1.sid # s2.sid
             /\ s1.userId = s2.userId
             /\ s2.expiration > s1.expiration
             /\ s2.expiration = now + SESSION_EXPIRATION

----------------------------------------------------------------------------
(* Properties of get_new_ticket *)

\* the tokens of the tickets in the store
StoredTokens(store) == {t.ticket : t \in store}

\* C16: with no concurrent writer, get_new_ticket never returns a token
\* that is in the wsticket collection: a candidate found there is discarded
\* and another one is drawn, a candidate not found is returned as it is, so
\* there is one regeneration for each colliding candidate; get_new_ticket
\* does not modify the collection.
C16_NoStoredTokenReturned ==
    [][ \A r \in Slots :
          /\ (req[r].pc = "find_one" /\ req'[r] # req[r]) =>
               /\ tickets' = tickets
               /\ IF req[r].ticket \in StoredTokens(tickets)
                  THEN /\ req'[r].pc = "find_one"
                       /\ req'[r].attempts = req[r].attempts + 1
                  ELSE /\ req'[r].pc = "insert"
                       /\ req'[r].ticket = req[r].ticket
                       /\ req'[r].attempts = req[r].attempts
          /\ req'[r].pc = "insert" => req'[r].ticket \notin StoredTokens(tickets')
          /\ (req[r].pc = "insert" /\ req'[r].pc = "done") =>
               /\ req[r].ticket \notin StoredTokens(tickets)
               /\ tickets' \ tickets = {t \in tickets' : t.ticket = req[r].ticket}
               /\ req'[r].resp = open_ticket_response(req[r].ticket)
      ]_vars

\* the first candidate was the token of the ticket in the store, the second
\* one was not: get_new_ticket has returned the second one after one
\* regeneration
C16_Witness ==
    \E r \in Slots :
        /\ req[r].pc = "insert"
        /\ req[r].attempts = 1
        /\ Cardinality(tickets) = 1
        /\ req[r].ticket \notin StoredTokens(tickets)

----------------------------------------------------------------------------
(* Frame of the decorators *)

\* the decorators of the request of slot r are evaluated in this step
GuardStep(r) ==
    /\ req[r].pc \in {"guards", "get_server"}
    /\ req'[r] # req[r]

\* C17: the evaluation of a decorator, passing or rejecting, leaves the
\* session collection, the ticket collection and the managed servers
\* unchanged; it changes the context of its own request only, and there
\* only by server_endpoint attaching the server.  No request rejected by a
\* decorator has created or deleted a session or a ticket, and
\* requires_login creates no session.
C17_GuardsHaveNoSideEffects ==
    [][ \A r \in Slots :
          GuardStep(r) =>
            /\ sessions' = sessions
            /\ tickets' = tickets
            /\ running' = running
            /\ nextSid' = nextSid /\ nextTid' = nextTid
            /\ \A q \in Slots \ {r} : req'[q] = req[q]
            /\ req'[r].ctx.session = req[r].ctx.session
            /\ req'[r].ctx.user = req[r].ctx.user
            /\ req'[r].json = req[r].json
            /\ req'[r].ctx.server # req[r].ctx.server =>
                 \E k \in EvaluatedNow(r, "server_endpoint") :
                     /\ req'[r].verdicts[k].out = "pass"
                     /\ req'[r].ctx.server = get_server(req[r].i)
      ]_vars

\* server_endpoint has attached the server to the context of a request
\* without a user, requires_login has then rejected it; the collections are
\* as they were
C17_Witness ==
    \E r \in Slots :
        LET rq == req[r] IN
        /\ rq.pc = "done"
        /\ rq.guards = << Guard("server_endpoint", FALSE, <<>>),
                          Guard("requires_login", TRUE, <<>>) >>
        /\ rq.ctx.server = "s1"
        /\ rq.verdicts[2].out = "reject"
        /\ ~rq.invoked
        /\ sessions = {h.session : h \in issued}
        /\ tickets = {}

----------------------------------------------------------------------------
(* Preconditions of the handlers under concurrency *)

\* the handler of the request of slot r is invoked in this step
Invoked(r) == ~req[r].invoked /\ req'[r].invoked

\* C18: with requests in flight together, when a handler is invoked every
\* precondition its decorators declare holds in the shared state of that
\* moment: the session the request was authenticated with is in the store
\* and unexpired (requires_login), the resolved server exists
\* (server_endpoint) and its running flag is the expected one
\* (requires_server_online).
C18_PreconditionsAtInvocation ==
    [][ \A r \in Slots :
          Invoked(r) =>
            LET rq == req'[r] IN
            \A k \in 1..Len(rq.guards) :
              LET g == rq.guards[k] IN
              /\ (g.name = "requires_login" /\ g.flag) =>
                   /\ rq.ctx.session \in sessions'
                   /\ now' < rq.ctx.session.expiration
              /\ g.name = "server_endpoint" =>
                   /\ rq.ctx.server # ""
                   /\ get_server(rq.i) = rq.ctx.server
              /\ (g.name = "requires_server_online"
                    /\ \E j \in 1..(k - 1) : rq.guards[j].name = "server_endpoint") =>
                   /\ rq.ctx.server \in DOMAIN running'
                   /\ running'[rq.ctx.server] = g.flag
      ]_vars

----------------------------------------------------------------------------
(* Outcomes of the decorators *)

\* C19: every evaluation of a decorator ends either in a typed error of the
\* taxonomy (requires_post_params: MISSING_VALUE; bind_model:
\* INVALID_PAYLOAD_SCHEMA with the list of violations) or in the call of
\* the next stage (bind_model handing the validated object on), also for a
\* request without a JSON body or with a body that is not a JSON object;
\* no decorator ends in an exception.
C19_TypedOutcomes ==
    \A r \in Slots :
        LET rq == req[r] IN
        \A k \in 1..Len(rq.verdicts) :
            LET g == rq.guards[k]
                v == rq.verdicts[k]
            IN (g.name = "requires_server_online" =>
                    \E j \in 1..(k - 1) : rq.guards[j].name = "server_endpoint")
               => /\ v.out \in {"pass", "reject"}
                  /\ v.out = "reject" => IsGuardError(g, v.resp)
                  /\ (g.name = "bind_model" /\ v.out = "reject") =>
                        "errors" \in DOMAIN v.resp.body
                  /\ (g.name = "bind_model" /\ v.out = "pass" /\ rq.invoked) =>
                        rq.data = "model"

----------------------------------------------------------------------------
(* The two notions of "logged in" *)

\* C20: login_get and check_session decide on req.ctx.session,
\* requires_login decides on req.ctx.user, and a request has a resolved
\* session iff it has a resolved user.  So GET /account/session answers
\* loggedIn true iff requires_login(True) would pass the request, and
\* GET /account/login answers 401 iff requires_login(False) would pass it.
C20_LoggedInNotionsAgree ==
    \A r \in Slots :
        LET rq == req[r] IN
        rq.pc # "idle" =>
          /\ (rq.ctx.session # NoSession) <=> (rq.ctx.user # "")
          /\ (rq.route = "check_session" /\ rq.pc = "done") =>
                (rq.resp.body.loggedIn <=> requires_login(TRUE, rq).out = "pass")
          /\ (rq.route = "login_get" /\ rq.pc = "done") =>
                /\ rq.resp.status \in {200, 401}
                /\ rq.resp.status = 401 <=> requires_login(FALSE, rq).out = "pass"

\* GET /account/login has answered 401 to a request carrying the id of a
\* session that is no longer valid; requires_login(False) would pass it
C20_Witness ==
    \E r \in Slots :
        LET rq == req[r] IN
        /\ rq.route = "login_get" /\ rq.pc = "done"
        /\ rq.sid # 0
        /\ rq.resp.status = 401
        /\ rq.ctx.session = NoSession /\ rq.ctx.user = ""
        /\ requires_login(FALSE, rq).out = "pass"

====
